---- MODULE Spec2Model ----
(***************************************************************************)
(* Literal decoding of bit-vector expressions (z3/bv.go): AsBigUnsigned,   *)
(* AsBigSigned, AsUint64 and AsInt64.                                      *)
(*                                                                         *)
(* Numbers are kept bit-exact.  A natural number (math/big nat) is the set *)
(* of the positions of its 1 bits, a big.Int is a sign and a magnitude as  *)
(* in math/big, and a uint64/int64 is a 64-bit pattern: a subset of        *)
(* 0..63.  Nothing is ever computed in the model checker's own integers    *)
(* except bit positions and widths.                                        *)
(***************************************************************************)
EXTENDS Integers, FiniteSets

VARIABLES expr, res

vars == <<expr, res>>

\* Largest bit-vector width explored.
MaxWidth == 128

\* Width of int64 / uint64.
WordBits == 64

Widths == 1..MaxWidth

\* Literals up to this width are explored with every one of their values.
ExhaustiveWidth == 8

Ops == {"AsBigUnsigned", "AsBigSigned", "AsUint64", "AsInt64"}

-----------------------------------------------------------------------------
(* math/big: nat and Int *)

\* The nil *big.Int.
Nil == [nil |-> TRUE]

\* What a call leaves behind when it dereferences a nil *big.Int.
Panic == [panic |-> TRUE]

\* No call of the operation has returned yet.
NotCalled == [called |-> FALSE]

mkInt(n, a) == [neg |-> n /\ a # {}, abs |-> a]

\* Position of the lowest 1 bit of a non-zero nat.
lowBit(a) == CHOOSE t \in a : \A j \in a : t <= j

\* Number of bits needed to write a nat.
bitLen(a) ==
    IF a = {} THEN 0
    ELSE 1 + (CHOOSE t \in a : (t + 1) \notin a /\ \A j \in a : j <= t)

\* nat.cmp: -1, 0 or 1.
natCmp(x, y) ==
    IF x = y THEN 0
    ELSE IF \E i \in x \ y : \A j \in y \ x : j < i THEN 1 ELSE -1

RECURSIVE addBits(_, _, _, _, _)
addBits(x, y, i, hi, carry) ==
    IF i > hi THEN (IF carry THEN {i} ELSE {})
    ELSE LET a == i \in x
             b == i \in y
             s == (a # b) # carry
             c == (a /\ b) \/ (carry /\ (a \/ b))
         IN  (IF s THEN {i} ELSE {}) \cup addBits(x, y, i + 1, hi, c)

\* nat.add
natAdd(x, y) == addBits(x, y, 0, bitLen(x \cup y), FALSE)

\* The borrow into bit i of x - y: the bits of x below i are a smaller number
\* than those of y, that is, the two differ below i and at the highest such
\* position the bit of y is the one that is set.
borrowIn(x, y, i) ==
    \E j \in y \ x : j < i /\ \A k \in x \ y : ~(j < k /\ k < i)

\* nat.sub, for x >= y
natSub(x, y) ==
    {i \in 0..(bitLen(x) - 1) : ((i \in x) # (i \in y)) # borrowIn(x, y, i)}

\* (*Int).Sub
bigSub(x, y) ==
    IF x.neg # y.neg THEN mkInt(x.neg, natAdd(x.abs, y.abs))
    ELSE IF natCmp(x.abs, y.abs) >= 0 THEN mkInt(x.neg, natSub(x.abs, y.abs))
    ELSE mkInt(~x.neg, natSub(y.abs, x.abs))

\* (*Int).Cmp
bigCmp(x, y) ==
    IF x.neg # y.neg THEN (IF x.neg THEN -1 ELSE 1)
    ELSE IF x.neg THEN natCmp(y.abs, x.abs) ELSE natCmp(x.abs, y.abs)

\* (*Int).Bit: bit i of x in two's complement.
bigBit(x, i) ==
    IF i < 0 THEN 0
    ELSE IF ~x.neg THEN (IF i \in x.abs THEN 1 ELSE 0)
    ELSE LET t == lowBit(x.abs)
         IN  IF i < t THEN 0 ELSE IF i = t THEN 1
             ELSE IF i \in x.abs THEN 0 ELSE 1

\* big.NewInt(1).Lsh(_, n)
bigOneLsh(n) == mkInt(FALSE, {n})

\* Two's complement negation of a 64-bit pattern.
neg64(p) ==
    IF p = {} THEN {}
    ELSE LET t == lowBit(p)
         IN  {t} \cup {i \in (t + 1)..(WordBits - 1) : i \notin p}

\* big.NewInt(x) for the int64 with pattern p.
bigNewInt(p) ==
    IF (WordBits - 1) \in p THEN mkInt(TRUE, neg64(p)) ELSE mkInt(FALSE, p)

\* (*Int).Int64: the low 64 bits of the magnitude, negated if x is negative.
bigInt64(x) ==
    LET low == x.abs \cap (0..(WordBits - 1))
    IN  IF x.neg THEN neg64(low) ELSE low

\* math.MaxInt64 and math.MinInt64 as int64 patterns.
MaxInt64 == 0..(WordBits - 2)
MinInt64 == {WordBits - 1}

\* int64 << k and int64 >> k (arithmetic) on patterns.
shl64(p, k) == {i + k : i \in {j \in p : j + k < WordBits}}
sar64(p, k) ==
    {i - k : i \in {j \in p : j >= k}}
        \cup (IF (WordBits - 1) \in p
              THEN (WordBits - k)..(WordBits - 1) ELSE {})

-----------------------------------------------------------------------------
(* Expressions *)

\* The bit positions whose values are varied independently in a literal of
\* width w: both ends of the vector and the two bits at the 64-bit boundary.
Marks(w) == {0, WordBits - 1, WordBits, w - 1} \cap (0..(w - 1))

\* The bits between the marked ones, below and above the 64-bit boundary.
LowFill(w) == (0..(w - 1)) \cap (1..(WordBits - 2))
HighFill(w) == (WordBits + 1)..(w - 2)

\* The unsigned values of the literals of width w that are explored: every
\* setting of the marked bits, with each run of bits between them all 0 or
\* all 1.  They include 0, 1, 2^63 - 1, 2^63, 2^64 - 1, 2^64, 2^(w-1) - 1,
\* 2^(w-1), 2^w - 2^63 - 1, 2^w - 2^63 and 2^w - 1 whenever below 2^w.
\* Narrow literals are explored with all their values.
Values(w) ==
    IF w <= ExhaustiveWidth THEN SUBSET (0..(w - 1))
    ELSE {s \cup l \cup h : s \in SUBSET Marks(w),
                            l \in {{}, LowFill(w) \ Marks(w)},
                            h \in {{}, HighFill(w)}}

\* Numeral: the unsigned value backing a literal, 0 <= numeral < 2^width.
LiteralsOf(w) ==
    {[kind |-> "numeral", size |-> w, numeral |-> mkInt(FALSE, v)] :
        v \in Values(w)}

Literals == UNION {LiteralsOf(w) : w \in Widths}

\* Free variables (BVConst) and compound expressions have no numeral.
Symbolic == {[kind |-> k, size |-> w] : k \in {"const", "app"}, w \in Widths}

\* expr.Sort().BVSize()
BVSize(e) == e.size

\* The AST-kind test both numeral queries start with.
isNumeral(e) == e.kind = "numeral"

\* asBigInt handing out the context's own numeral instead of a copy.
asBigInt_shared(e) ==
    IF e.kind # "numeral"
    THEN [val |-> Nil, isLiteral |-> FALSE, ref |-> "nil"]
    ELSE [val |-> e.numeral, isLiteral |-> TRUE, ref |-> "ctx"]

\* expr.asBigInt(): nil, false for a non-literal; otherwise the numeral in a
\* big.Int of its own (ref says what the returned pointer refers to).
asBigInt(e) ==
    IF ~isNumeral(e) THEN [val |-> Nil, isLiteral |-> FALSE, ref |-> "nil"]
    ELSE [val |-> e.numeral, isLiteral |-> TRUE, ref |-> "new"]

\* expr.asUint64(): 0, false, false for a non-literal; for a literal the
\* native 64-bit query, which fails when the numeral is not a uint64.
asUint64(e) ==
    IF ~isNumeral(e) THEN [val |-> {}, isLiteral |-> FALSE, ok |-> FALSE]
    ELSE IF ~e.numeral.neg /\ \A i \in e.numeral.abs : i < WordBits
         THEN [val |-> e.numeral.abs, isLiteral |-> TRUE, ok |-> TRUE]
         ELSE [val |-> {}, isLiteral |-> TRUE, ok |-> FALSE]

-----------------------------------------------------------------------------
(* z3/bv.go *)

\* AsBigUnsigned applying the sign adjustment of AsBigSigned.
AsBigUnsigned_signed(e) ==
    LET r == asBigInt(e)
    IN  IF r.val = Nil THEN r
        ELSE [r EXCEPT !.val = IF bigBit(r.val, BVSize(e) - 1) # 0
                               THEN bigSub(r.val, bigOneLsh(BVSize(e)))
                               ELSE r.val]

AsBigUnsigned(e) == asBigInt(e)

\* AsBigSigned subtracting 2^(size-1) instead of 2^size.
AsBigSigned_shiftOff(e) ==
    LET r == AsBigUnsigned(e)
        v == r.val
    IN  IF v = Nil THEN [val |-> v, isLiteral |-> r.isLiteral, ref |-> r.ref]
        ELSE LET size == BVSize(e)
             IN  [val |-> IF bigBit(v, size - 1) # 0
                          THEN bigSub(v, bigOneLsh(size - 1))
                          ELSE v,
                  isLiteral |-> TRUE,
                  ref |-> r.ref]

\* AsBigSigned without the nil test: v.Bit dereferences the nil *big.Int.
AsBigSigned_noNilCheck(e) ==
    LET r == AsBigUnsigned(e)
        v == r.val
    IN  IF v = Nil
        THEN [val |-> v, isLiteral |-> r.isLiteral, ref |-> r.ref,
              panic |-> TRUE]
        ELSE LET size == BVSize(e)
             IN  [val |-> IF bigBit(v, size - 1) # 0
                          THEN bigSub(v, bigOneLsh(size))
                          ELSE v,
                  isLiteral |-> TRUE,
                  ref |-> r.ref]

AsBigSigned(e) ==
    LET r == AsBigUnsigned(e)
        v == r.val
    IN  IF v = Nil THEN [val |-> v, isLiteral |-> r.isLiteral, ref |-> r.ref]
        ELSE LET size == BVSize(e)
             IN  [val |-> IF bigBit(v, size - 1) # 0
                          THEN bigSub(v, bigOneLsh(size))
                          ELSE v,
                  isLiteral |-> TRUE,
                  ref |-> r.ref]

\* The literal cases AsInt64 does not settle from the uint64 alone.
slowPath(e) ==
    LET u == asUint64(e)
        size == BVSize(e)
    IN  /\ u.isLiteral
        /\ ~(u.ok /\ size < WordBits)
        /\ ~(u.ok /\ natCmp(u.val, {WordBits - 1}) < 0)

\* The shift back done on the uint64: a logical shift, no sign extension.
signExtend_logical(uval, size) ==
    {i - (WordBits - size) :
        i \in {j \in shl64(uval, WordBits - size) : j >= WordBits - size}}

\* int64(uval) << uint(64-size) >> uint(64-size)
signExtend(uval, size) ==
    sar64(shl64(uval, WordBits - size), WordBits - size)

\* AsInt64 rejecting math.MinInt64 itself.
AsInt64_minExclusive(e) ==
    LET u == asUint64(e)
        size == BVSize(e)
    IN  IF ~u.isLiteral
        THEN [val |-> {}, isLiteral |-> u.isLiteral, ok |-> u.ok]
        ELSE IF u.ok /\ size < WordBits
        THEN [val |-> signExtend(u.val, size),
              isLiteral |-> TRUE, ok |-> TRUE]
        ELSE IF u.ok /\ natCmp(u.val, {WordBits - 1}) < 0
        THEN [val |-> u.val, isLiteral |-> TRUE, ok |-> TRUE]
        ELSE LET bigVal == AsBigSigned(e).val
             IN  IF bigVal = Nil THEN Panic
                 ELSE IF bigCmp(bigVal, bigNewInt(MaxInt64)) > 0
                 THEN [val |-> {}, isLiteral |-> TRUE, ok |-> FALSE]
                 ELSE IF bigCmp(bigVal, bigNewInt(MinInt64)) <= 0
                 THEN [val |-> {}, isLiteral |-> TRUE, ok |-> FALSE]
                 ELSE [val |-> bigInt64(bigVal),
                       isLiteral |-> TRUE, ok |-> TRUE]

\* AsInt64 taking the unsigned value on its slow path.
AsInt64_unsignedSlow(e) ==
    LET u == asUint64(e)
        size == BVSize(e)
    IN  IF ~u.isLiteral
        THEN [val |-> {}, isLiteral |-> u.isLiteral, ok |-> u.ok]
        ELSE IF u.ok /\ size < WordBits
        THEN [val |-> signExtend(u.val, size),
              isLiteral |-> TRUE, ok |-> TRUE]
        ELSE IF u.ok /\ natCmp(u.val, {WordBits - 1}) < 0
        THEN [val |-> u.val, isLiteral |-> TRUE, ok |-> TRUE]
        ELSE LET bigVal == AsBigUnsigned(e).val
             IN  IF bigVal = Nil THEN Panic
                 ELSE IF bigCmp(bigVal, bigNewInt(MaxInt64)) > 0
                 THEN [val |-> {}, isLiteral |-> TRUE, ok |-> FALSE]
                 ELSE IF bigCmp(bigVal, bigNewInt(MinInt64)) < 0
                 THEN [val |-> {}, isLiteral |-> TRUE, ok |-> FALSE]
                 ELSE [val |-> bigInt64(bigVal),
                       isLiteral |-> TRUE, ok |-> TRUE]

\* AsInt64 reporting ok for a non-literal.
AsInt64_nonLiteralOk(e) ==
    LET u == asUint64(e)
        size == BVSize(e)
    IN  IF ~u.isLiteral
        THEN [val |-> {}, isLiteral |-> u.isLiteral, ok |-> TRUE]
        ELSE IF u.ok /\ size < WordBits
        THEN [val |-> signExtend(u.val, size),
              isLiteral |-> TRUE, ok |-> TRUE]
        ELSE IF u.ok /\ natCmp(u.val, {WordBits - 1}) < 0
        THEN [val |-> u.val, isLiteral |-> TRUE, ok |-> TRUE]
        ELSE LET bigVal == AsBigSigned(e).val
             IN  IF bigVal = Nil THEN Panic
                 ELSE IF bigCmp(bigVal, bigNewInt(MaxInt64)) > 0
                 THEN [val |-> {}, isLiteral |-> TRUE, ok |-> FALSE]
                 ELSE IF bigCmp(bigVal, bigNewInt(MinInt64)) < 0
                 THEN [val |-> {}, isLiteral |-> TRUE, ok |-> FALSE]
                 ELSE [val |-> bigInt64(bigVal),
                       isLiteral |-> TRUE, ok |-> TRUE]

\* AsInt64 without the early return for a non-literal.
AsInt64_noLiteralCheck(e) ==
    LET u == asUint64(e)
        size == BVSize(e)
    IN  IF u.ok /\ size < WordBits
        THEN [val |-> signExtend(u.val, size),
              isLiteral |-> TRUE, ok |-> TRUE]
        ELSE IF u.ok /\ natCmp(u.val, {WordBits - 1}) < 0
        THEN [val |-> u.val, isLiteral |-> TRUE, ok |-> TRUE]
        ELSE LET bigVal == AsBigSigned(e).val
             IN  IF bigVal = Nil THEN Panic
                 ELSE IF bigCmp(bigVal, bigNewInt(MaxInt64)) > 0
                 THEN [val |-> {}, isLiteral |-> TRUE, ok |-> FALSE]
                 ELSE IF bigCmp(bigVal, bigNewInt(MinInt64)) < 0
                 THEN [val |-> {}, isLiteral |-> TRUE, ok |-> FALSE]
                 ELSE [val |-> bigInt64(bigVal),
                       isLiteral |-> TRUE, ok |-> TRUE]

AsInt64(e) ==
    LET u == asUint64(e)
        size == BVSize(e)
    IN  IF ~u.isLiteral
        THEN [val |-> {}, isLiteral |-> u.isLiteral, ok |-> u.ok]
        ELSE IF u.ok /\ size < WordBits
        THEN [val |-> signExtend(u.val, size),
              isLiteral |-> TRUE, ok |-> TRUE]
        ELSE IF u.ok /\ natCmp(u.val, {WordBits - 1}) < 0
        THEN [val |-> u.val, isLiteral |-> TRUE, ok |-> TRUE]
        ELSE LET bigVal == AsBigSigned(e).val
             IN  IF bigVal = Nil THEN Panic
                 ELSE IF bigCmp(bigVal, bigNewInt(MaxInt64)) > 0
                 THEN [val |-> {}, isLiteral |-> TRUE, ok |-> FALSE]
                 ELSE IF bigCmp(bigVal, bigNewInt(MinInt64)) < 0
                 THEN [val |-> {}, isLiteral |-> TRUE, ok |-> FALSE]
                 ELSE [val |-> bigInt64(bigVal),
                       isLiteral |-> TRUE, ok |-> TRUE]

\* AsUint64 answered by reinterpreting the result of AsInt64.
AsUint64_viaInt64(e) == AsInt64(e)

AsUint64(e) == asUint64(e)

\* The expression after AsBigSigned's in-place v.Sub(v, shift) on the
\* big.Int r: the numeral changes only if r is the numeral itself.
written(e, r) ==
    IF r.ref = "ctx" THEN [e EXCEPT !.numeral = r.val] ELSE e

-----------------------------------------------------------------------------
(* The calls a client can make on one expression *)

Init ==
    /\ expr \in Literals \cup Symbolic
    /\ res = [op \in Ops |-> NotCalled]

CallAsBigUnsigned ==
    /\ res' = [res EXCEPT !["AsBigUnsigned"] = AsBigUnsigned(expr)]
    /\ expr' = expr

CallAsBigSigned ==
    LET r == AsBigSigned(expr)
    IN  /\ res' = [res EXCEPT !["AsBigSigned"] = r]
        /\ expr' = written(expr, r)

CallAsUint64 ==
    /\ res' = [res EXCEPT !["AsUint64"] = AsUint64(expr)]
    /\ expr' = expr

CallAsInt64 ==
    /\ res' = [res EXCEPT !["AsInt64"] = AsInt64(expr)]
    /\ expr' = IF slowPath(expr) THEN written(expr, AsBigSigned(expr))
               ELSE expr

Next ==
    \/ CallAsBigUnsigned
    \/ CallAsBigSigned
    \/ CallAsUint64
    \/ CallAsInt64

Spec == Init /\ [][Next]_vars

-----------------------------------------------------------------------------
(* What the results are meant to be, stated without the operations above *)

\* Widths up to this one are also checked in plain integer arithmetic.
MaxIntWidth == 16

Called(op) == res[op] # NotCalled

\* The call that produced r dereferenced a nil pointer.
Panicked(r) == "panic" \in DOMAIN r

Returned(op) == Called(op) /\ ~Panicked(res[op])

\* The unsigned value v of the literal.
Unsigned(e) == e.numeral.abs

\* 2^w - v for 0 < v < 2^w: the bits of v above its lowest 1 bit, inverted.
Complement(w, v) ==
    LET t == CHOOSE i \in v : \A j \in v : i <= j
    IN  {t} \cup {i \in (t + 1)..(w - 1) : i \notin v}

\* The two's complement value of the w-bit pattern v: v if bit w-1 is 0,
\* v - 2^w if it is 1.
Signed(w, v) ==
    IF (w - 1) \in v THEN [neg |-> TRUE, abs |-> Complement(w, v)]
    ELSE [neg |-> FALSE, abs |-> v]

\* -2^(n-1) <= x <= 2^(n-1) - 1
InSignedRange(n, x) ==
    \/ \A i \in x.abs : i < n - 1
    \/ x.neg /\ x.abs = {n - 1}

\* The integer an int64 pattern stands for.
Int64Value(p) == Signed(WordBits, p)

RECURSIVE Pow2(_)
Pow2(n) == IF n = 0 THEN 1 ELSE 2 * Pow2(n - 1)

RECURSIVE NatOf(_)
NatOf(a) ==
    IF a = {} THEN 0
    ELSE LET t == CHOOSE i \in a : TRUE IN Pow2(t) + NatOf(a \ {t})

\* A big.Int of few bits as an ordinary integer.
IntOf(x) == IF x.neg THEN 0 - NatOf(x.abs) ELSE NatOf(x.abs)

\* The two's complement value in integer arithmetic, for narrow patterns.
SignedInt(w, v) ==
    IF NatOf(v) >= Pow2(w - 1) THEN NatOf(v) - Pow2(w) ELSE NatOf(v)

-----------------------------------------------------------------------------

\* C1: for every width w >= 1 and every literal of width w with unsigned
\* value v, AsBigSigned returns (v, true) when bit w-1 of v is 0 and
\* (v - 2^w, true) when it is 1; the result lies in [-2^(w-1), 2^(w-1) - 1],
\* and for w = 1 it is 0 or -1.
C1_AsBigSignedTwosComplement ==
    (isNumeral(expr) /\ Called("AsBigSigned")) =>
        LET r == res["AsBigSigned"]
            w == BVSize(expr)
            v == Unsigned(expr)
        IN  /\ ~Panicked(r)
            /\ r.isLiteral = TRUE
            /\ r.val = Signed(w, v)
            /\ r.val.neg = ((w - 1) \in v)
            /\ InSignedRange(w, r.val)
            /\ w = 1 => r.val \in {[neg |-> FALSE, abs |-> {}],
                                   [neg |-> TRUE, abs |-> {0}]}
            /\ w <= MaxIntWidth => IntOf(r.val) = SignedInt(w, v)

\* AsBigSigned has returned a negative value for a literal wider than 64
\* bits, and -56 for the 8-bit literal 200.
C1_Witness ==
    /\ isNumeral(expr) /\ Called("AsBigSigned")
    /\ \/ BVSize(expr) > WordBits /\ res["AsBigSigned"].val.neg
       \/ /\ BVSize(expr) = 8 /\ Unsigned(expr) = {3, 6, 7}
          /\ IntOf(res["AsBigSigned"].val) = 0 - 56

\* C2: for every width w in [1, 128] and every unsigned value v in [0, 2^w),
\* AsBigUnsigned on the w-bit literal of v returns exactly (v, true); the
\* value is never negative and never >= 2^w.
C2_AsBigUnsignedExact ==
    (isNumeral(expr) /\ Called("AsBigUnsigned")) =>
        LET r == res["AsBigUnsigned"]
            w == BVSize(expr)
        IN  /\ r.isLiteral = TRUE
            /\ r.val = [neg |-> FALSE, abs |-> Unsigned(expr)]
            /\ ~r.val.neg
            /\ \A i \in r.val.abs : i < w
            /\ w <= MaxIntWidth =>
                   IntOf(r.val) >= 0 /\ IntOf(r.val) < Pow2(w)

\* AsBigUnsigned has returned the value of a literal with its top bit set.
C2_Witness ==
    /\ isNumeral(expr) /\ Called("AsBigUnsigned")
    /\ (BVSize(expr) - 1) \in Unsigned(expr)
    /\ BVSize(expr) > WordBits

\* C3: for every literal with two's complement value s, AsInt64 returns
\* (s, true, true) if -2^63 <= s <= 2^63 - 1, both bounds included, and
\* (0, true, false) otherwise; s is the value AsBigSigned returns.
C3_AsInt64RangeChecked ==
    (isNumeral(expr) /\ Called("AsInt64")) =>
        LET r == res["AsInt64"]
            s == Signed(BVSize(expr), Unsigned(expr))
        IN  /\ ~Panicked(r)
            /\ AsBigSigned(expr).val = s
            /\ IF InSignedRange(WordBits, s)
               THEN /\ r.isLiteral = TRUE /\ r.ok = TRUE
                    /\ \A i \in r.val : i < WordBits
                    /\ Int64Value(r.val) = s
               ELSE r = [val |-> {}, isLiteral |-> TRUE, ok |-> FALSE]

\* AsInt64 has answered on its slow path, once with a value at a bound of
\* the int64 range and once with a value just outside it.
C3_Witness ==
    /\ isNumeral(expr) /\ Called("AsInt64") /\ slowPath(expr)
    /\ BVSize(expr) > WordBits
    /\ \/ res["AsInt64"].ok /\ res["AsInt64"].val = MinInt64
       \/ ~res["AsInt64"].ok /\ Unsigned(expr) = {WordBits - 1}

\* C4 as stated: AsInt64 on the 64-bit literal 0x8000000000000000 reports
\* ok = false.
C4_MinInt64Rejected ==
    (/\ isNumeral(expr) /\ Called("AsInt64")
     /\ BVSize(expr) = WordBits /\ Unsigned(expr) = {WordBits - 1}) =>
        res["AsInt64"].ok = FALSE

\* C4, amended: AsInt64 on the 64-bit literal 0x8000000000000000 returns
\* (-2^63, true, true).
C4_MinInt64Accepted ==
    (/\ isNumeral(expr) /\ Called("AsInt64")
     /\ BVSize(expr) = WordBits /\ Unsigned(expr) = {WordBits - 1}) =>
        /\ res["AsInt64"] = [val |-> MinInt64, isLiteral |-> TRUE, ok |-> TRUE]
        /\ Int64Value(res["AsInt64"].val) = [neg |-> TRUE, abs |-> {WordBits - 1}]

\* AsInt64 has returned for the 64-bit literal 0x8000000000000000.
C4_Witness ==
    /\ isNumeral(expr) /\ Returned("AsInt64")
    /\ BVSize(expr) = WordBits /\ Unsigned(expr) = {WordBits - 1}

\* C5: for every literal of width 1 <= w < 64 with unsigned value uval,
\* AsInt64 reports ok = true and returns uval shifted left by 64-w bits and
\* arithmetically shifted right by 64-w bits, which is uval when bit w-1 is 0
\* and uval - 2^w when it is 1; the 32-bit literal 0xFFFFFFFF yields
\* (-1, true, true).
C5_AsInt64SignExtends ==
    (isNumeral(expr) /\ Called("AsInt64") /\ BVSize(expr) < WordBits) =>
        LET r == res["AsInt64"]
            w == BVSize(expr)
            uval == Unsigned(expr)
        IN  /\ ~Panicked(r)
            /\ r.isLiteral = TRUE /\ r.ok = TRUE
            /\ r.val = sar64(shl64(uval, WordBits - w), WordBits - w)
            /\ Int64Value(r.val) = Signed(w, uval)
            /\ r.val = IF (w - 1) \in uval
                       THEN uval \cup (w..(WordBits - 1)) ELSE uval
            /\ w <= MaxIntWidth => IntOf(Int64Value(r.val)) = SignedInt(w, uval)
            /\ (w = 32 /\ uval = 0..31) => r.val = 0..(WordBits - 1)

\* AsInt64 has returned -1 for the 32-bit literal 0xFFFFFFFF.
C5_Witness ==
    /\ isNumeral(expr) /\ Returned("AsInt64")
    /\ BVSize(expr) = 32 /\ Unsigned(expr) = 0..31
    /\ Int64Value(res["AsInt64"].val) = [neg |-> TRUE, abs |-> {0}]

\* C6: AsBigUnsigned and AsBigSigned on a non-literal (a free variable or a
\* compound expression) return a nil value and isLiteral = false, without
\* panicking.
C6_NonLiteralBig ==
    ~isNumeral(expr) =>
        \A op \in {"AsBigUnsigned", "AsBigSigned"} :
            Called(op) =>
                /\ ~Panicked(res[op])
                /\ res[op].val = Nil
                /\ res[op].isLiteral = FALSE

\* Both big decodes have returned for a non-literal.
C6_Witness ==
    /\ ~isNumeral(expr)
    /\ Returned("AsBigUnsigned") /\ Returned("AsBigSigned")

\* C7: AsInt64 on a non-literal returns exactly (0, false, false), whatever
\* the width.
C7_NonLiteralInt64 ==
    (~isNumeral(expr) /\ Called("AsInt64")) =>
        res["AsInt64"] = [val |-> {}, isLiteral |-> FALSE, ok |-> FALSE]

\* AsInt64 has returned for a non-literal of at least 64 bits.
C7_Witness ==
    ~isNumeral(expr) /\ Returned("AsInt64") /\ BVSize(expr) >= WordBits

\* C8: for every literal with unsigned value v, AsUint64 returns
\* (v, true, true) if v < 2^64 and isLiteral = true, ok = false otherwise;
\* for w <= 64 it never reports ok = false.
C8_AsUint64Fits ==
    (isNumeral(expr) /\ Called("AsUint64")) =>
        LET r == res["AsUint64"]
            v == Unsigned(expr)
        IN  /\ ~Panicked(r)
            /\ IF \A i \in v : i < WordBits
               THEN r = [val |-> v, isLiteral |-> TRUE, ok |-> TRUE]
               ELSE r.isLiteral = TRUE /\ r.ok = FALSE
            /\ BVSize(expr) <= WordBits => r.ok = TRUE

\* AsUint64 has returned 2^64 - 1 for a literal wider than 64 bits, or has
\* reported that the value 2^64 does not fit.
C8_Witness ==
    /\ isNumeral(expr) /\ Returned("AsUint64") /\ BVSize(expr) > WordBits
    /\ \/ res["AsUint64"].ok /\ res["AsUint64"].val = 0..(WordBits - 1)
       \/ ~res["AsUint64"].ok /\ Unsigned(expr) = {WordBits}

\* C9: decoding does not change the expression, and every later call of an
\* operation returns what its first call returned, whichever calls were made
\* in between.
C9_DecodingIsRepeatable ==
    [][/\ expr' = expr
       /\ \A op \in Ops : Called(op) => res'[op] = res[op]]_vars

\* All four operations have returned for a literal on which AsBigSigned
\* performed its subtraction and AsInt64 took its slow path.
C9_Witness ==
    /\ isNumeral(expr) /\ \A op \in Ops : Returned(op)
    /\ res["AsBigSigned"].val.neg
    /\ slowPath(expr)

\* C10: AsInt64 always returns, never dereferencing a nil big value: whenever
\* its slow path is reached, the AsBigSigned call it makes returns a non-nil
\* value.
C10_AsInt64Total ==
    /\ Called("AsInt64") =>
           /\ ~Panicked(res["AsInt64"])
           /\ res["AsInt64"].val \subseteq 0..(WordBits - 1)
           /\ res["AsInt64"].isLiteral \in BOOLEAN
           /\ res["AsInt64"].ok \in BOOLEAN
    /\ (\/ slowPath(expr)
        \/ asUint64(expr).isLiteral /\ ~asUint64(expr).ok
        \/ /\ asUint64(expr).isLiteral
           /\ (WordBits - 1) \in asUint64(expr).val
           /\ BVSize(expr) >= WordBits) =>
           /\ ~Panicked(AsBigSigned(expr))
           /\ AsBigSigned(expr).val # Nil

\* AsInt64 has returned from its slow path for a value that is no uint64.
C10_Witness ==
    /\ Returned("AsInt64") /\ slowPath(expr)
    /\ ~asUint64(expr).ok

====
